---- MODULE Spec2Model ----
(***************************************************************************)
(* Model of allen_xml_to_visual-areas_csv.py: the projection extractor     *)
(* (extract_projection_data), the injection-hemisphere heuristic           *)
(* (infer_injection_hemisphere) and the directory run (process_xml_files). *)
(*                                                                         *)
(* Three specifications share the variables:                               *)
(*   Spec       one call of extract_projection_data, record by record      *)
(*   SpecInfer  infer_injection_hemisphere applied to bounded tables       *)
(*   SpecBatch  one call of process_xml_files, write by write              *)
(***************************************************************************)
EXTENDS Integers, Sequences, FiniteSets, TLC

VARIABLES
    xml_file,          \* the file handed to extract_projection_data
    pc,                \* position in the running function
    i,                 \* index of the next record of the first loop
    j,                 \* index of the next record of the second loop
    hemisphere_data,   \* h_id -> field -> area -> cell
    injection_sites,   \* list of (filename, hemisphere id, structure id)
    found_injection,   \* the flag of the second loop
    exc,               \* the exception that left the function, or "none"
    result,            \* SpecInfer: infer_injection_hemisphere(table)
    result_swapped,    \* SpecInfer: the same on the table with "1" and "2" swapped
    directory,         \* SpecBatch: the input directory (exists, listing, output dir)
    disk,              \* SpecBatch: output path -> file on disk
    disk0,             \* SpecBatch: the disk before the run
    xml_files,         \* SpecBatch: the list built at line 90
    fidx,              \* SpecBatch: index of the file being processed
    widx,              \* SpecBatch: index of the next output path to write
    cur,               \* SpecBatch: what extract_projection_data returned
    stdout             \* SpecBatch: the lines printed by process_xml_files

exVars == <<xml_file, i, j, hemisphere_data, injection_sites, found_injection>>
inVars == <<result, result_swapped>>
baVars == <<directory, disk, disk0, xml_files, fidx, widx, cur, stdout>>
vars == <<pc, exc, exVars, inVars, baVars>>

(***************************************************************************)
(* Bounds.                                                                 *)
(***************************************************************************)
MaxRecs == 2      \* records per document
MaxUnits == 2     \* largest mantissa unit of a cell drawn for SpecInfer
MaxFiles == 3     \* entries in the directory listing

(***************************************************************************)
(* The catalog and the field list (lines 127-137).  A Python dict iterates *)
(* in insertion order, so the catalog is an order plus a mapping.          *)
(***************************************************************************)
AreaOrder ==
    <<"VISal", "VISam", "VISl", "VISp", "VISpl", "VISpm", "VISli",
      "VISpor", "RSPagl", "RSPd", "RSPv", "VISa", "VISrl">>

Areas == {AreaOrder[n] : n \in DOMAIN AreaOrder}

areas_of_interest ==
    [a \in Areas |->
        CASE a = "VISal"  -> 402
          [] a = "VISam"  -> 394
          [] a = "VISl"   -> 409
          [] a = "VISp"   -> 385
          [] a = "VISpl"  -> 425
          [] a = "VISpm"  -> 533
          [] a = "VISli"  -> 312782574
          [] a = "VISpor" -> 312782628
          [] a = "RSPagl" -> 894
          [] a = "RSPd"   -> 879
          [] a = "RSPv"   -> 886
          [] a = "VISa"   -> 312782546
          [] a = "VISrl"  -> 417]

additional_fields ==
    <<"normalized-projection-volume", "projection-intensity", "projection-volume",
      "sum-pixel-intensity", "sum-pixels", "sum-projection-pixel-intensity",
      "sum-projection-pixels", "volume">>

FieldOrder == <<"projection-density">> \o additional_fields

Fields == {FieldOrder[n] : n \in DOMAIN FieldOrder}

HemiOrder == <<"1", "2", "3">>

Hemis == {HemiOrder[n] : n \in DOMAIN HemiOrder}

(***************************************************************************)
(* Python values.  A str and an int are never equal, so values carry their *)
(* type; None is a value of its own.                                       *)
(***************************************************************************)
PyStr(s) == [type |-> "str", s |-> s, n |-> 0]

PyInt(n) == [type |-> "int", s |-> "", n |-> n]

PyNone == [type |-> "NoneType", s |-> "", n |-> 0]

PyEq(a, b) == a = b

PyIn(x, list) == \E n \in DOMAIN list : PyEq(x, list[n])

\* str(s_id) of an int
str(n) == PyStr(ToString(n))

\* str.strip() on the texts the documents carry
strip(s) ==
    CASE s = " 1"    -> "1"
      [] s = " Yes " -> "Yes"
      [] s = " 385 " -> "385"
      [] s = " 7 "   -> "7"
      [] OTHER       -> s

\* str.lower() on the texts the documents carry
lower(s) ==
    CASE s = "Yes"  -> "yes"
      [] s = "TRUE" -> "true"
      [] OTHER      -> s

(***************************************************************************)
(* Elements.  find() returns None (found = FALSE) or an element whose      *)
(* .text is a str, or None for an empty element.                           *)
(***************************************************************************)
NoChild == [found |-> FALSE, text |-> PyNone]

EmptyChild == [found |-> TRUE, text |-> PyNone]

Child(s) == [found |-> TRUE, text |-> PyStr(s)]

(***************************************************************************)
(* Numbers.  A parsed number is the decimal m * 10^e; a cell of the table  *)
(* is the literal "0", or the text d.ddE+xx written as (d, x) with d the   *)
(* three signed mantissa digits, i.e. the decimal d * 10^(x-2).            *)
(***************************************************************************)
RECURSIVE Pow10(_)
Pow10(n) == IF n <= 0 THEN 1 ELSE 10 * Pow10(n - 1)

Abs(n) == IF n < 0 THEN -n ELSE n

RECURSIVE NumDigits(_)
NumDigits(a) == IF a < 10 THEN 1 ELSE 1 + NumDigits(a \div 10)

Lit0 == [k |-> "lit", d |-> 0, x |-> 0]

Sci(d, x) == [k |-> "sci", d |-> d, x |-> x]

\* a cell no call of format() produces: text that float() rejects
BadCell == [k |-> "bad", d |-> 0, x |-> 0]

TwoDigits(n) == IF n < 10 THEN "0" \o ToString(n) ELSE ToString(n)

\* the str a cell is: "0", or d.ddE+xx
CellText(c) ==
    CASE c.k = "lit" -> "0"
      [] c.k = "bad" -> "abc"
      [] OTHER ->
           (IF c.d < 0 THEN "-" ELSE "") \o ToString(Abs(c.d) \div 100) \o "."
           \o TwoDigits(Abs(c.d) % 100) \o "E"
           \o (IF c.x < 0 THEN "-" ELSE "+") \o TwoDigits(Abs(c.x))

\* float(text): the decimal value, or the exception raised
float(text) ==
    IF text = PyNone THEN [exc |-> "TypeError", m |-> 0, e |-> 0]
    ELSE LET s == text.s IN
      CASE s = "0"       -> [exc |-> "none", m |-> 0, e |-> 0]
        [] s = "0.001"   -> [exc |-> "none", m |-> 1, e |-> -3]
        [] s = "0.002"   -> [exc |-> "none", m |-> 2, e |-> -3]
        [] s = "1000000" -> [exc |-> "none", m |-> 1, e |-> 6]
        [] s = "2000000" -> [exc |-> "none", m |-> 2, e |-> 6]
        [] s = "1234"    -> [exc |-> "none", m |-> 1234, e |-> 0]
        [] s = "1235"    -> [exc |-> "none", m |-> 1235, e |-> 0]
        [] s = "9996"    -> [exc |-> "none", m |-> 9996, e |-> 0]
        [] s = "-0.0125" -> [exc |-> "none", m |-> -125, e |-> -4]
        [] s = " 7 "     -> [exc |-> "none", m |-> 7, e |-> 0]
        [] OTHER         -> [exc |-> "ValueError", m |-> 0, e |-> 0]

\* format(x, ".2E"): three significant digits, round half to even
format2E(m, e) ==
    IF m = 0 THEN Sci(0, 0)
    ELSE LET a    == Abs(m)
             sg   == IF m < 0 THEN -1 ELSE 1
             nd   == NumDigits(a)
             drop == nd - 3
         IN IF drop <= 0
            THEN Sci(sg * a * Pow10(-drop), e + drop + 2)
            ELSE LET P  == Pow10(drop)
                     q  == a \div P
                     r  == a % P
                     up == (2 * r > P) \/ (2 * r = P /\ q % 2 = 1)
                     q1 == IF up THEN q + 1 ELSE q
                 IN IF q1 = 1000
                    THEN Sci(sg * 100, e + drop + 3)
                    ELSE Sci(sg * q1, e + drop + 2)

\* float(v) of a cell of the table
cell_float(c) ==
    IF c.k = "bad" THEN [exc |-> "ValueError", d |-> 0, x |-> 0]
    ELSE [exc |-> "none", d |-> c.d, x |-> c.x]

(***************************************************************************)
(* infer_injection_hemisphere (lines 13-29).  The two scores are compared  *)
(* exactly, in units of 10^-5: a projection-volume cell d.ddE+xx counts    *)
(* d * 10^(x+3) units and a projection-intensity cell, weighted by 1e-9,   *)
(* d * 10^(x-6) units.  The cells the specifications draw have volume      *)
(* exponents >= -3 and intensity exponents >= 6, where both are integers   *)
(* and where binary64 evaluation orders the scores the same way.           *)
(***************************************************************************)
Scaled(d, n) == IF n >= 0 THEN d * Pow10(n) ELSE d \div Pow10(-n)

VolumeUnits(c) == Scaled(c.d, c.x + 3)

IntensityUnits(c) == Scaled(c.d, c.x - 6)

\* does float() raise on some cell of the row?
RowRaises(row) == \E a \in Areas : cell_float(row[a]).exc # "none"

RECURSIVE SumVolume(_, _)
SumVolume(row, n) ==
    IF n > Len(AreaOrder) THEN 0
    ELSE VolumeUnits(row[AreaOrder[n]]) + SumVolume(row, n + 1)

RECURSIVE SumIntensity(_, _)
SumIntensity(row, n) ==
    IF n > Len(AreaOrder) THEN 0
    ELSE IntensityUnits(row[AreaOrder[n]]) + SumIntensity(row, n + 1)

total_volume(tbl, h) == SumVolume(tbl[h]["projection-volume"], 1)

total_intensity(tbl, h) == SumIntensity(tbl[h]["projection-intensity"], 1)

\* Score without the intensity term
ScoreVolumeOnly(tbl, h) ==
    IF RowRaises(tbl[h]["projection-volume"]) \/ RowRaises(tbl[h]["projection-intensity"])
    THEN 0
    ELSE total_volume(tbl, h)

\* scores[h_id]: the try block of lines 16-22
Score(tbl, h) ==
    IF RowRaises(tbl[h]["projection-volume"]) \/ RowRaises(tbl[h]["projection-intensity"])
    THEN 0
    ELSE total_volume(tbl, h) + total_intensity(tbl, h)

\* Decide with the first comparison non-strict
DecideTieToFirst(s1, s2) ==
    IF s1 >= s2 THEN "1"
    ELSE IF s2 > s1 THEN "2"
    ELSE "unknown"

\* lines 24-29
Decide(s1, s2) ==
    IF s1 > s2 THEN "1"
    ELSE IF s2 > s1 THEN "2"
    ELSE "unknown"

infer_injection_hemisphere(tbl) == Decide(Score(tbl, "1"), Score(tbl, "2"))

(***************************************************************************)
(* extract_projection_data (lines 31-83).                                  *)
(***************************************************************************)
\* line 36
DefaultTable == [h \in Hemis |-> [f \in Fields |-> [a \in Areas |-> Lit0]]]

NoTable == [h \in {} |-> Lit0]

\* os.path.splitext(os.path.basename(xml_file))[0]
Stem(name) ==
    CASE name = "a.xml"     -> "a"
      [] name = "b.xml"     -> "b"
      [] name = "bad.xml"   -> "bad"
      [] name = "m.xml"     -> "m"
      [] name = "notes.txt" -> "notes"
      [] OTHER              -> name

\* FieldCell that formats the default of an absent child as a number
FieldCellZeroText(child) ==
    IF child.found
    THEN LET v == float(child.text)
         IN [exc |-> v.exc, cell |-> IF v.exc = "none" THEN format2E(v.m, v.e) ELSE Lit0]
    ELSE [exc |-> "none", cell |-> Sci(0, 0)]

\* line 56, one field of a matching record: the new cell, or the exception
FieldCell(child) ==
    IF child.found
    THEN LET v == float(child.text)
         IN [exc |-> v.exc, cell |-> IF v.exc = "none" THEN format2E(v.m, v.e) ELSE Lit0]
    ELSE [exc |-> "none", cell |-> Lit0]

\* lines 54-56: the fields of one matching (hemisphere, area), in dict order
RECURSIVE FieldsLoop(_, _, _, _, _)
FieldsLoop(tbl, rec, h, a, n) ==
    IF n > Len(FieldOrder) THEN [exc |-> "none", t |-> tbl]
    ELSE LET f == FieldOrder[n]
             r == FieldCell(rec.fields[f])
         IN IF r.exc # "none" THEN [exc |-> r.exc, t |-> tbl]
            ELSE FieldsLoop([tbl EXCEPT ![h][f][a] = r.cell], rec, h, a, n + 1)

\* AreaMatches that ignores the structure id
AreaMatchesAny(a, structure_id) == TRUE

\* line 53
AreaMatches(a, structure_id) == PyEq(str(areas_of_interest[a]), structure_id)

\* lines 52-56: the catalog loop of one record
RECURSIVE AreasLoop(_, _, _, _)
AreasLoop(tbl, rec, h, n) ==
    IF n > Len(AreaOrder) THEN [exc |-> "none", t |-> tbl]
    ELSE IF AreaMatches(AreaOrder[n], rec.sid.text)
         THEN LET r == FieldsLoop(tbl, rec, h, AreaOrder[n], 1)
              IN IF r.exc # "none" THEN r ELSE AreasLoop(r.t, rec, h, n + 1)
         ELSE AreasLoop(tbl, rec, h, n + 1)

\* lines 43-50: the record is skipped by the first loop
Skipped1(rec) ==
    \/ ~rec.hemi.found
    \/ ~rec.sid.found
    \/ rec.hemi.text = PyNone
    \/ rec.hemi.text.s \notin Hemis

\* lines 40-56: the body of the first loop for one record
FirstLoopBody(tbl, rec) ==
    IF Skipped1(rec) THEN [exc |-> "none", t |-> tbl]
    ELSE AreasLoop(tbl, rec, rec.hemi.text.s, 1)

\* line 58
visp_ids == <<PyInt(areas_of_interest["VISp"])>>

\* line 73, on the stripped texts
IsExplicitInjection(is_injection, structure_id, hemisphere_id) ==
    /\ is_injection \in {"true", "1", "yes"}
    /\ PyIn(PyStr(structure_id), visp_ids)
    /\ hemisphere_id \in {"1", "2"}

\* lines 62-76: the body of the second loop for one record
SecondLoopBody(sites, found, filename, rec) ==
    IF ~rec.inj.found \/ ~rec.sid.found \/ ~rec.hemi.found
    THEN [exc |-> "none", sites |-> sites, found |-> found]
    ELSE IF rec.inj.text = PyNone \/ rec.sid.text = PyNone \/ rec.hemi.text = PyNone
    THEN [exc |-> "AttributeError", sites |-> sites, found |-> found]
    ELSE LET is_injection == lower(strip(rec.inj.text.s))
             structure_id == strip(rec.sid.text.s)
             hemisphere_id == strip(rec.hemi.text.s)
         IN IF IsExplicitInjection(is_injection, structure_id, hemisphere_id)
            THEN [exc |-> "none",
                  sites |-> Append(sites, <<filename, hemisphere_id, structure_id>>),
                  found |-> TRUE]
            ELSE [exc |-> "none", sites |-> sites, found |-> found]

\* NeedsInference with the test inverted
NeedsInferenceInverted(found) == found

\* line 78
NeedsInference(found) == ~found

\* lines 78-81
Fallback(sites, found, filename, tbl) ==
    IF NeedsInference(found)
    THEN Append(sites, <<filename, infer_injection_hemisphere(tbl), "inferred">>)
    ELSE sites

\* the whole call, for process_xml_files: lines 31-83
RECURSIVE FirstLoop(_, _, _)
FirstLoop(tbl, doc, n) ==
    IF n > Len(doc) THEN [exc |-> "none", t |-> tbl]
    ELSE LET r == FirstLoopBody(tbl, doc[n])
         IN IF r.exc # "none" THEN r ELSE FirstLoop(r.t, doc, n + 1)

RECURSIVE SecondLoop(_, _, _, _, _)
SecondLoop(sites, found, filename, doc, n) ==
    IF n > Len(doc) THEN [exc |-> "none", sites |-> sites, found |-> found]
    ELSE LET r == SecondLoopBody(sites, found, filename, doc[n])
         IN IF r.exc # "none" THEN r
            ELSE SecondLoop(r.sites, r.found, filename, doc, n + 1)

extract_projection_data(file) ==
    LET filename == Stem(file.name)
        failed(e) == [exc |-> e, filename |-> filename,
                      hemisphere_data |-> NoTable, injection_sites |-> <<>>]
    IN IF ~file.parsable THEN failed("ParseError")
       ELSE LET l1 == FirstLoop(DefaultTable, file.doc, 1)
            IN IF l1.exc # "none" THEN failed(l1.exc)
               ELSE LET l2 == SecondLoop(<<>>, FALSE, filename, file.doc, 1)
                    IN IF l2.exc # "none" THEN failed(l2.exc)
                       ELSE [exc |-> "none", filename |-> filename,
                             hemisphere_data |-> l1.t,
                             injection_sites |-> Fallback(l2.sites, l2.found, filename, l1.t)]

(***************************************************************************)
(* Documents.  A record is a projection-structure-unionize element: its    *)
(* hemisphere-id, structure-id and is-injection children and its measured  *)
(* field children.                                                         *)
(***************************************************************************)
Rec(h, s, inj, prof) == [hemi |-> h, sid |-> s, inj |-> inj, fields |-> prof]

ProfNone == [f \in Fields |-> NoChild]

ProfA ==
    [f \in Fields |->
        CASE f = "projection-density"   -> Child("1234")
          [] f = "projection-intensity" -> Child("1000000")
          [] f = "projection-volume"    -> Child("0.002")
          [] f = "sum-pixels"           -> Child(" 7 ")
          [] OTHER                      -> NoChild]

ProfB ==
    [f \in Fields |->
        CASE f = "projection-density"           -> Child("1235")
          [] f = "normalized-projection-volume" -> Child("-0.0125")
          [] f = "projection-intensity"         -> Child("2000000")
          [] f = "projection-volume"            -> Child("0.001")
          [] f = "sum-pixel-intensity"          -> Child("0")
          [] f = "volume"                       -> Child("9996")
          [] OTHER                              -> NoChild]

\* a non-numeric measured field after a numeric one
ProfBadNum ==
    [f \in Fields |->
        CASE f = "projection-density"   -> Child("1234")
          [] f = "projection-intensity" -> Child("abc")
          [] OTHER                      -> NoChild]

\* an empty measured field element: its .text is None
ProfEmpty ==
    [f \in Fields |->
        CASE f = "sum-pixels" -> EmptyChild
          [] OTHER            -> NoChild]

Records ==
    {Rec(Child(h), Child("385"), NoChild, prof) :
        h \in {"1", "2"}, prof \in {ProfA, ProfB}}
    \cup
    {Rec(Child(h), Child("385"), Child("true"), prof) :
        h \in {"1", "2"}, prof \in {ProfNone, ProfA}}
    \cup
    {Rec(Child("1"), Child("402"), NoChild, ProfA),
     Rec(Child("2"), Child("402"), NoChild, ProfB)}
    \cup
    {Rec(Child("3"), Child("385"), NoChild, ProfA),
     Rec(Child("3"), Child("385"), Child("true"), ProfNone),
     Rec(Child("4"), Child("385"), Child("true"), ProfA),
     Rec(Child(" 1"), Child(" 385 "), Child(" Yes "), ProfA),
     Rec(Child("2"), Child("385"), Child("TRUE"), ProfNone),
     Rec(Child("1"), Child("385"), Child("false"), ProfB),
     Rec(Child("1"), Child("385"), EmptyChild, ProfNone),
     Rec(NoChild, Child("385"), Child("true"), ProfA),
     Rec(Child("1"), NoChild, Child("true"), ProfA),
     Rec(EmptyChild, Child("402"), NoChild, ProfA),
     Rec(Child("2"), Child("999"), Child("1"), ProfBadNum),
     Rec(Child("1"), Child("385"), NoChild, ProfBadNum),
     Rec(Child("2"), Child("402"), NoChild, ProfEmpty)}

RECURSIVE SeqsUpTo(_, _)
SeqsUpTo(S, n) ==
    IF n = 0 THEN {<<>>}
    ELSE LET shorter == SeqsUpTo(S, n - 1)
         IN shorter \cup {Append(q, e) : q \in {q \in shorter : Len(q) = n - 1}, e \in S}

XmlFile(name, parsable, doc) == [name |-> name, parsable |-> parsable, doc |-> doc]

Documents == SeqsUpTo(Records, MaxRecs)

(***************************************************************************)
(* Spec: one call of extract_projection_data.                              *)
(***************************************************************************)
NoDirectory == [exists |-> FALSE, listing |-> <<>>, same_output |-> TRUE]

InitBatchIdle ==
    /\ directory = NoDirectory
    /\ disk = <<>>
    /\ disk0 = <<>>
    /\ xml_files = <<>>
    /\ fidx = 0
    /\ widx = 0
    /\ cur = <<>>
    /\ stdout = <<>>

InitInferIdle ==
    /\ result = "none"
    /\ result_swapped = "none"

Init ==
    /\ xml_file \in {XmlFile("a.xml", TRUE, d) : d \in Documents}
                    \cup {XmlFile("bad.xml", FALSE, <<>>)}
    /\ pc = "call"
    /\ exc = "none"
    /\ i = 0
    /\ j = 0
    /\ hemisphere_data = NoTable
    /\ injection_sites = <<>>
    /\ found_injection = FALSE
    /\ InitInferIdle
    /\ InitBatchIdle

\* lines 32-37
ExtractParse ==
    /\ pc = "call"
    /\ IF xml_file.parsable
       THEN /\ hemisphere_data' = DefaultTable
            /\ injection_sites' = <<>>
            /\ i' = 1
            /\ pc' = "loop1"
            /\ exc' = exc
       ELSE /\ pc' = "raised"
            /\ exc' = "ParseError"
            /\ UNCHANGED <<hemisphere_data, injection_sites, i>>
    /\ UNCHANGED <<xml_file, j, found_injection, inVars, baVars>>

\* lines 39-56, one iteration
ExtractRecord ==
    /\ pc = "loop1"
    /\ i <= Len(xml_file.doc)
    /\ LET r == FirstLoopBody(hemisphere_data, xml_file.doc[i])
       IN /\ hemisphere_data' = r.t
          /\ IF r.exc = "none"
             THEN i' = i + 1 /\ UNCHANGED <<pc, exc>>
             ELSE pc' = "raised" /\ exc' = r.exc /\ i' = i
    /\ UNCHANGED <<xml_file, j, injection_sites, found_injection, inVars, baVars>>

\* lines 58-59
ScanStart ==
    /\ pc = "loop1"
    /\ i > Len(xml_file.doc)
    /\ found_injection' = FALSE
    /\ j' = 1
    /\ pc' = "loop2"
    /\ UNCHANGED <<xml_file, i, hemisphere_data, injection_sites, exc, inVars, baVars>>

\* lines 61-76, one iteration
ScanRecord ==
    /\ pc = "loop2"
    /\ j <= Len(xml_file.doc)
    /\ LET r == SecondLoopBody(injection_sites, found_injection,
                               Stem(xml_file.name), xml_file.doc[j])
       IN /\ injection_sites' = r.sites
          /\ found_injection' = r.found
          /\ IF r.exc = "none"
             THEN j' = j + 1 /\ UNCHANGED <<pc, exc>>
             ELSE pc' = "raised" /\ exc' = r.exc /\ j' = j
    /\ UNCHANGED <<xml_file, i, hemisphere_data, inVars, baVars>>

\* lines 78-83
InferAndReturn ==
    /\ pc = "loop2"
    /\ j > Len(xml_file.doc)
    /\ injection_sites' = Fallback(injection_sites, found_injection,
                                   Stem(xml_file.name), hemisphere_data)
    /\ pc' = "return"
    /\ UNCHANGED <<xml_file, i, j, hemisphere_data, found_injection, exc, inVars, baVars>>

Next ==
    \/ ExtractParse
    \/ ExtractRecord
    \/ ScanStart
    \/ ScanRecord
    \/ InferAndReturn

Spec == Init /\ [][Next]_vars

\* the record-by-record run agrees with the whole-call operator
StepwiseAgrees ==
    LET whole == extract_projection_data(xml_file)
    IN /\ pc = "return" =>
            /\ whole.exc = "none"
            /\ whole.hemisphere_data = hemisphere_data
            /\ whole.injection_sites = injection_sites
       /\ pc = "raised" => whole.exc = exc

(***************************************************************************)
(* SpecInfer: infer_injection_hemisphere on tables drawn from bounded      *)
(* sets, and on the same table with hemispheres "1" and "2" exchanged.     *)
(***************************************************************************)
VolumeCells == {Lit0, BadCell} \cup {Sci(100 * u, -3) : u \in 1..MaxUnits}

IntensityCells == {Lit0, BadCell} \cup {Sci(100 * u, 6) : u \in 1..MaxUnits}

InferTables ==
    {[DefaultTable EXCEPT
        !["1"]["projection-volume"]["VISal"] = va1,
        !["1"]["projection-volume"]["VISp"] = vp1,
        !["1"]["projection-intensity"]["VISp"] = ip1,
        !["2"]["projection-volume"]["VISal"] = va2,
        !["2"]["projection-volume"]["VISp"] = vp2,
        !["2"]["projection-intensity"]["VISp"] = ip2] :
        va1 \in VolumeCells \ {BadCell}, vp1 \in VolumeCells, ip1 \in IntensityCells,
        va2 \in VolumeCells \ {BadCell}, vp2 \in VolumeCells, ip2 \in IntensityCells}

SwapHemispheres(tbl) == [tbl EXCEPT !["1"] = tbl["2"], !["2"] = tbl["1"]]

InitExtractIdle ==
    /\ xml_file = XmlFile("a.xml", TRUE, <<>>)
    /\ i = 0
    /\ j = 0
    /\ injection_sites = <<>>
    /\ found_injection = FALSE

InitInfer ==
    /\ hemisphere_data \in InferTables
    /\ pc = "table"
    /\ exc = "none"
    /\ result = "none"
    /\ result_swapped = "none"
    /\ InitExtractIdle
    /\ InitBatchIdle

InferTable ==
    /\ pc = "table"
    /\ result' = infer_injection_hemisphere(hemisphere_data)
    /\ pc' = "inferred"
    /\ UNCHANGED <<exc, exVars, result_swapped, baVars>>

InferSwapped ==
    /\ pc = "inferred"
    /\ result_swapped' = infer_injection_hemisphere(SwapHemispheres(hemisphere_data))
    /\ pc' = "done"
    /\ UNCHANGED <<exc, exVars, result, baVars>>

NextInfer == InferTable \/ InferSwapped

SpecInfer == InitInfer /\ [][NextInfer]_vars

(***************************************************************************)
(* SpecBatch: one call of process_xml_files (lines 85-125).                *)
(***************************************************************************)
\* what the directory's entries hold
FileOf(name) ==
    CASE name = "a.xml" ->
           XmlFile(name, TRUE,
                   <<Rec(Child("1"), Child("385"), Child("true"), ProfA),
                     Rec(Child("2"), Child("402"), NoChild, ProfB)>>)
      [] name = "b.xml" ->
           XmlFile(name, TRUE, <<Rec(Child("3"), Child("385"), NoChild, ProfB)>>)
      [] name = "m.xml" ->
           XmlFile(name, TRUE, <<Rec(Child("1"), Child("385"), NoChild, ProfBadNum)>>)
      [] OTHER -> XmlFile(name, FALSE, <<>>)

FileNames == {"a.xml", "b.xml", "bad.xml", "m.xml", "notes.txt"}

\* f.endswith(".xml")
EndsWithXml(name) == name \in {"a.xml", "b.xml", "bad.xml", "m.xml"}

IsInjective(q) == \A m, n \in DOMAIN q : m # n => q[m] # q[n]

\* os.listdir: distinct names, in no particular order
Listings == {q \in SeqsUpTo(FileNames, MaxFiles) : IsInjective(q)}

\* line 90: the .xml entries, in listing order
RECURSIVE XmlOnly(_)
XmlOnly(q) ==
    IF q = <<>> THEN <<>>
    ELSE IF EndsWithXml(Head(q)) THEN <<Head(q)>> \o XmlOnly(Tail(q))
    ELSE XmlOnly(Tail(q))

\* lines 91-95
HemispherePath(h, f) == "output_hemisphere_" \o h \o "_" \o f \o ".csv"

injection_output_path == "output_injection_sites.csv"

NumHemispherePaths == Len(HemiOrder) * Len(FieldOrder)

\* the n-th (h_id, field) of the nested loops of lines 97-98 and 110-111
PathHemi(n) == HemiOrder[((n - 1) \div Len(FieldOrder)) + 1]

PathField(n) == FieldOrder[((n - 1) % Len(FieldOrder)) + 1]

PathAt(n) ==
    IF n <= NumHemispherePaths THEN HemispherePath(PathHemi(n), PathField(n))
    ELSE injection_output_path

OutputPaths == {PathAt(n) : n \in 1..(NumHemispherePaths + 1)}

\* lines 101 and 105
HemisphereHeader == <<"filename">> \o AreaOrder

InjectionHeader == <<"filename", "hemisphere_id", "structure_id">>

\* line 114
RowOf(filename, tbl, h, f) ==
    <<filename>> \o [n \in DOMAIN AreaOrder |-> CellText(tbl[h][f][AreaOrder[n]])]

\* a file on disk
NoFile == [exists |-> FALSE, rows |-> <<>>]

\* OpenTruncate that keeps the content, as mode "a" does
OpenTruncateKeeps(file) == [exists |-> TRUE, rows |-> file.rows]

\* open(path, "w"): the file exists and is empty
OpenTruncate(file) == [exists |-> TRUE, rows |-> <<>>]

\* OpenAppend that empties the file, as mode "w" does
OpenAppendEmpties(file) == [exists |-> TRUE, rows |-> <<>>]

\* open(path, "a"): the file exists and keeps what it holds
OpenAppend(file) == [exists |-> TRUE, rows |-> file.rows]

WriteRows(file, rows) == [file EXCEPT !.rows = file.rows \o rows]

\* DirectoryMissing with the check left out
DirectoryMissingNever(dir) == FALSE

\* line 86
DirectoryMissing(dir) == ~dir.exists

\* the output directory is the input directory (line 145) or another, existing one
OutputDirExists(dir) == IF dir.same_output THEN dir.exists ELSE TRUE

StaleRow == <<"old">> \o [n \in DOMAIN AreaOrder |-> "9.99E+00"]

\* what an earlier run may have left in the output directory
PriorDisks ==
    {[p \in OutputPaths |-> NoFile],
     [p \in OutputPaths |->
        IF p = injection_output_path
        THEN [exists |-> TRUE, rows |-> <<InjectionHeader, <<"old", "1", "inferred">>>>]
        ELSE [exists |-> TRUE, rows |-> <<HemisphereHeader, StaleRow>>]],
     [p \in OutputPaths |->
        IF p = HemispherePath("2", "volume")
        THEN [exists |-> TRUE, rows |-> <<HemisphereHeader, StaleRow, StaleRow>>]
        ELSE NoFile]}

Directories ==
    {[exists |-> TRUE, listing |-> q, same_output |-> TRUE] : q \in Listings}
    \cup {[exists |-> FALSE, listing |-> <<>>, same_output |-> so] : so \in BOOLEAN}

InitBatch ==
    /\ directory \in Directories
    /\ disk \in {d \in PriorDisks :
                   OutputDirExists(directory) \/ \A p \in OutputPaths : ~d[p].exists}
    /\ disk0 = disk
    /\ xml_files = <<>>
    /\ fidx = 0
    /\ widx = 0
    /\ cur = <<>>
    /\ stdout = <<>>
    /\ pc = "call"
    /\ exc = "none"
    /\ hemisphere_data = NoTable
    /\ InitExtractIdle
    /\ InitInferIdle

\* lines 86-95
CheckDirectory ==
    /\ pc = "call"
    /\ IF DirectoryMissing(directory)
       THEN /\ stdout' = Append(stdout, "Error: Directory does not exist")
            /\ pc' = "returned"
            /\ UNCHANGED <<xml_files, widx, exc>>
       ELSE IF ~directory.exists
       THEN \* os.listdir of a missing directory
            /\ pc' = "raised"
            /\ exc' = "FileNotFoundError"
            /\ UNCHANGED <<xml_files, widx, stdout>>
       ELSE /\ xml_files' = XmlOnly(directory.listing)
            /\ widx' = 1
            /\ pc' = "headers"
            /\ UNCHANGED <<stdout, exc>>
    /\ UNCHANGED <<directory, disk, disk0, fidx, cur, exVars, inVars>>

\* lines 97-105, one open(path, "w") and its header row
WriteHeader ==
    /\ pc = "headers"
    /\ LET p == PathAt(widx)
           header == IF widx <= NumHemispherePaths THEN HemisphereHeader
                     ELSE InjectionHeader
       IN IF ~OutputDirExists(directory)
          THEN /\ pc' = "raised"
               /\ exc' = "FileNotFoundError"
               /\ UNCHANGED <<disk, widx, fidx>>
          ELSE /\ disk' = [disk EXCEPT ![p] = WriteRows(OpenTruncate(@), <<header>>)]
               /\ exc' = exc
               /\ IF widx <= NumHemispherePaths
                  THEN widx' = widx + 1 /\ UNCHANGED <<pc, fidx>>
                  ELSE widx' = 0 /\ fidx' = 1 /\ pc' = "files"
    /\ UNCHANGED <<directory, disk0, xml_files, cur, stdout, exVars, inVars>>

\* line 108
ProcessFile ==
    /\ pc = "files"
    /\ fidx <= Len(xml_files)
    /\ LET r == extract_projection_data(FileOf(xml_files[fidx]))
       IN IF r.exc # "none"
          THEN \* nothing catches it: the exception leaves process_xml_files
               /\ pc' = "raised"
               /\ exc' = r.exc
               /\ UNCHANGED <<cur, widx, fidx>>
          ELSE /\ cur' = r
               /\ widx' = 1
               /\ pc' = "rows"
               /\ UNCHANGED <<exc, fidx>>
    /\ UNCHANGED <<directory, disk, disk0, xml_files, stdout, exVars, inVars>>

\* lines 110-114, one open(path, "a") and its row
AppendRow ==
    /\ pc = "rows"
    /\ widx <= NumHemispherePaths
    /\ disk' = [disk EXCEPT ![PathAt(widx)] =
                   WriteRows(OpenAppend(@),
                             <<RowOf(cur.filename, cur.hemisphere_data,
                                     PathHemi(widx), PathField(widx))>>)]
    /\ widx' = widx + 1
    /\ UNCHANGED <<pc, exc, directory, disk0, xml_files, fidx, cur, stdout, exVars, inVars>>

\* lines 116-119
AppendInjectionSites ==
    /\ pc = "rows"
    /\ widx > NumHemispherePaths
    /\ disk' = IF cur.injection_sites # <<>>
               THEN [disk EXCEPT ![injection_output_path] =
                        WriteRows(OpenAppend(@), cur.injection_sites)]
               ELSE disk
    /\ fidx' = fidx + 1
    /\ widx' = 0
    /\ pc' = "files"
    /\ UNCHANGED <<exc, directory, disk0, xml_files, cur, stdout, exVars, inVars>>

\* lines 121-125
PrintManifest ==
    /\ pc = "files"
    /\ fidx > Len(xml_files)
    /\ stdout' = stdout \o <<"CSV files created:">>
                 \o [n \in 1..(NumHemispherePaths + 1) |-> PathAt(n)]
    /\ pc' = "done"
    /\ UNCHANGED <<exc, directory, disk, disk0, xml_files, fidx, widx, cur, exVars, inVars>>

NextBatch ==
    \/ CheckDirectory
    \/ WriteHeader
    \/ ProcessFile
    \/ AppendRow
    \/ AppendInjectionSites
    \/ PrintManifest

SpecBatch == InitBatch /\ [][NextBatch]_vars

(***************************************************************************)
(* Properties of extract_projection_data, checked under Spec.              *)
(***************************************************************************)
Doc == xml_file.doc

Sites == {injection_sites[n] : n \in DOMAIN injection_sites}

\* the record names hemisphere h and the catalog identifier of area a
Names(rec, h, a) ==
    /\ rec.hemi.found /\ rec.hemi.text = PyStr(h)
    /\ rec.sid.found /\ rec.sid.text = PyStr(ToString(areas_of_interest[a]))

\* the record is an injection record of the primary area at a lateral hemisphere
MarksInjection(rec) ==
    /\ rec.inj.found /\ rec.inj.text # PyNone
    /\ lower(strip(rec.inj.text.s)) \in {"true", "1", "yes"}
    /\ rec.sid.found /\ rec.sid.text # PyNone
    /\ strip(rec.sid.text.s) = ToString(areas_of_interest["VISp"])
    /\ rec.hemi.found /\ rec.hemi.text # PyNone
    /\ strip(rec.hemi.text.s) \in {"1", "2"}

\* C1: at return, every record that is marked as an injection of VISp (385) at
\* hemisphere "1" or "2" has its explicit record (filename, hemisphere id,
\* structure id) among the injection sites, and a file whose only record is such
\* a record at hemisphere "1" yields exactly the one row (filename, "1", "385").
C1_ExplicitInjectionEmitted ==
    pc = "return" =>
        /\ \A n \in DOMAIN Doc :
              MarksInjection(Doc[n]) =>
                 <<Stem(xml_file.name), strip(Doc[n].hemi.text.s),
                   strip(Doc[n].sid.text.s)>> \in Sites
        /\ (Len(Doc) = 1 /\ MarksInjection(Doc[1]) /\ Doc[1].hemi.text = PyStr("1"))
              => injection_sites = <<<<Stem(xml_file.name), "1", "385">>>>

InferredRows == {n \in DOMAIN injection_sites : injection_sites[n][3] = "inferred"}

ExplicitRows == {n \in DOMAIN injection_sites : injection_sites[n][3] # "inferred"}

\* C2: at return the injection records hold an "inferred" record if and only if
\* they hold no explicit record, and then exactly one, whose hemisphere is what
\* infer_injection_hemisphere gives for the file's table.
C2_InferredIffNoExplicit ==
    pc = "return" =>
        /\ (InferredRows # {}) <=> (ExplicitRows = {})
        /\ InferredRows # {} =>
              /\ Cardinality(InferredRows) = 1
              /\ \A n \in InferredRows :
                    /\ injection_sites[n][1] = Stem(xml_file.name)
                    /\ injection_sites[n][2] = infer_injection_hemisphere(hemisphere_data)

\* a file with volume in hemisphere "2" only returns the one inferred record
C2_Witness ==
    /\ pc = "return"
    /\ \E n \in DOMAIN Doc : Names(Doc[n], "2", "VISp") /\ Doc[n].fields = ProfA
    /\ injection_sites = <<<<"a", "2", "inferred">>>>

TableBuilt == pc \in {"loop1", "loop2", "return"} \/ (pc = "raised" /\ exc # "ParseError")

\* C3: while the records are traversed and at return, the table has an entry for
\* each of the hemispheres "1", "2", "3", each of the 9 fields and each catalog
\* area, and a (hemisphere, area) pair that no record of the file names holds
\* exactly "0" in every field.
C3_TableTotalAndDefault ==
    TableBuilt =>
        /\ DOMAIN hemisphere_data = {"1", "2", "3"}
        /\ \A h \in DOMAIN hemisphere_data :
              /\ DOMAIN hemisphere_data[h] = Fields
              /\ Cardinality(Fields) = 9
              /\ \A f \in Fields : DOMAIN hemisphere_data[h][f] = Areas
        /\ \A h \in Hemis, a \in Areas :
              (\A n \in DOMAIN Doc : ~Names(Doc[n], h, a)) =>
                  \A f \in Fields : CellText(hemisphere_data[h][f][a]) = "0"

\* a returned table with a stored value next to untouched pairs
C3_Witness ==
    /\ pc = "return"
    /\ Len(Doc) = 2
    /\ CellText(hemisphere_data["1"]["projection-density"]["VISp"]) = "1.24E+03"
    /\ CellText(hemisphere_data["1"]["volume"]["VISp"]) = "1.00E+04"
    /\ CellText(hemisphere_data["2"]["projection-density"]["VISp"]) = "0"
    /\ CellText(hemisphere_data["1"]["projection-density"]["VISal"]) = "0"

\* C4: no malformed measured field (non-numeric or empty text) makes
\* extract_projection_data raise: the call never ends in the ValueError or
\* TypeError of float().
C4_NoRaiseOnMalformedField == ~(pc = "raised" /\ exc \in {"ValueError", "TypeError"})

\* record i is about to be processed, names (h, a) and lacks the child of field f
AbsentFieldStep(h, a, f) ==
    /\ pc = "loop1"
    /\ i <= Len(Doc)
    /\ Names(Doc[i], h, a)
    /\ ~Doc[i].fields[f].found

\* C8 as stated: processing a record that names (hemisphere, area) and lacks
\* the child of a measured field leaves the cell [hemisphere][field][area] as
\* it was before the record.
C8_AbsentFieldKeepsCell ==
    [][\A h \in Hemis, a \in Areas, f \in Fields :
          AbsentFieldStep(h, a, f) =>
              hemisphere_data'[h][f][a] = hemisphere_data[h][f][a]]_vars

\* C8 amended: processing, without an exception, a record that names
\* (hemisphere, area) and lacks the child of a measured field stores the literal
\* "0" in the cell, whatever it held before.
C8_AbsentFieldResetsCell ==
    [][\A h \in Hemis, a \in Areas, f \in Fields :
          (AbsentFieldStep(h, a, f) /\ pc' # "raised") =>
              hemisphere_data'[h][f][a] = Lit0]_vars

\* the second record of a pair lacked a field the first one carried: the cell is "0"
C8_Witness ==
    /\ pc = "loop1"
    /\ i = 3
    /\ Names(Doc[1], "1", "VISp") /\ Doc[1].fields["volume"] = Child("9996")
    /\ Names(Doc[2], "1", "VISp") /\ ~Doc[2].fields["volume"].found
    /\ hemisphere_data["1"]["volume"]["VISp"] = Lit0

(***************************************************************************)
(* Properties of infer_injection_hemisphere, checked under SpecInfer.      *)
(***************************************************************************)
Inferred == pc \in {"inferred", "done"}

\* every projection-volume and projection-intensity cell of both lateral
\* hemispheres is a number
CellsNumeric ==
    \A h \in {"1", "2"} :
        /\ ~RowRaises(hemisphere_data[h]["projection-volume"])
        /\ ~RowRaises(hemisphere_data[h]["projection-intensity"])

VolSum(h) == total_volume(hemisphere_data, h)

IntSum(h) == total_intensity(hemisphere_data, h)

\* C5 as stated: the hemisphere with the strictly larger projection-volume sum
\* is returned, whatever (numeric) values the projection-intensity cells hold.
C5_VolumeAloneDecides ==
    (Inferred /\ CellsNumeric) =>
        /\ VolSum("1") > VolSum("2") => result = "1"
        /\ VolSum("2") > VolSum("1") => result = "2"

\* C5 amended: on a table of numeric cells the hemisphere whose score
\* total_volume + 1e-9 * total_intensity is strictly larger is returned; a
\* strictly larger volume sum decides only while it outweighs 1e-9 times the
\* other hemisphere's surplus of intensity.
C5_ScoreDecides ==
    (Inferred /\ CellsNumeric) =>
        /\ VolSum("1") + IntSum("1") > VolSum("2") + IntSum("2") => result = "1"
        /\ VolSum("2") + IntSum("2") > VolSum("1") + IntSum("1") => result = "2"

\* hemisphere "1" has the larger volume and hemisphere "2" the larger score
C5_Witness ==
    /\ pc = "done"
    /\ CellsNumeric
    /\ VolSum("1") > VolSum("2")
    /\ VolSum("2") + IntSum("2") > VolSum("1") + IntSum("1")
    /\ result = "2"

\* C10: exchanging the sub-tables of hemispheres "1" and "2" exchanges the
\* answers "1" and "2", and a table whose two scores are equal (the all-"0"
\* table among them) gives "unknown" before and after the exchange.
C10_SwapSymmetric ==
    pc = "done" =>
        /\ result = "1" <=> result_swapped = "2"
        /\ result = "2" <=> result_swapped = "1"
        /\ Score(hemisphere_data, "1") = Score(hemisphere_data, "2") =>
              (result = "unknown" /\ result_swapped = "unknown")
        /\ hemisphere_data = DefaultTable =>
              (result = "unknown" /\ result_swapped = "unknown")

\* a table decided by its intensity cells alone, and its exchange
C10_Witness ==
    /\ pc = "done"
    /\ CellsNumeric
    /\ VolSum("1") = VolSum("2")
    /\ IntSum("1") > IntSum("2")
    /\ result = "1"
    /\ result_swapped = "2"

(***************************************************************************)
(* Properties of process_xml_files, checked under SpecBatch.               *)
(***************************************************************************)
HemispherePaths == {HemispherePath(h, f) : h \in Hemis, f \in Fields}

\* the row file `name` contributes to the table of (h, f)
ExpectedRow(name, h, f) ==
    LET tbl == extract_projection_data(FileOf(name)).hemisphere_data
    IN <<Stem(name)>> \o [n \in 1..13 |-> CellText(tbl[h][f][AreaOrder[n]])]

\* the header and the rows of the first n .xml files of the listing
ExpectedTable(n, h, f) ==
    <<HemisphereHeader>> \o [k \in 1..n |-> ExpectedRow(XmlOnly(directory.listing)[k], h, f)]

\* C6: called with an input directory that does not exist, process_xml_files
\* reports the error and returns, and no output file is created, truncated or
\* appended to: the disk is as it was.
C6_MissingDirectoryTouchesNothing ==
    ~directory.exists =>
        /\ disk = disk0
        /\ pc \in {"call", "returned"}
        /\ pc = "returned" => stdout = <<"Error: Directory does not exist">>

\* the call returned and the files of an earlier run are still there
C6_Witness ==
    /\ ~directory.exists
    /\ pc = "returned"
    /\ \E p \in OutputPaths : disk[p].exists /\ Len(disk[p].rows) > 1

\* C7: after a completed run each of the 27 hemisphere tables is the header
\* row followed by one row per .xml file of the directory, in listing order,
\* each keyed by its file's name with one value per catalog area in catalog
\* order; nothing an earlier run wrote is left.
C7_TablesRebuiltInListingOrder ==
    pc = "done" =>
        /\ Cardinality(HemispherePaths) = 27
        /\ \A h \in Hemis, f \in Fields :
              /\ disk[HemispherePath(h, f)].exists
              /\ disk[HemispherePath(h, f)].rows =
                    ExpectedTable(Len(XmlOnly(directory.listing)), h, f)

\* two files were written over the tables of an earlier run
C7_Witness ==
    /\ pc = "done"
    /\ directory.listing = <<"b.xml", "notes.txt", "a.xml">>
    /\ \A p \in OutputPaths : disk0[p].exists
    /\ Len(disk[HemispherePath("1", "projection-density")].rows) = 3
    /\ disk[HemispherePath("1", "projection-density")].rows[3][5] = "1.23E+03"

\* the k-th file is the one whose parse failed
HaltedOnParse == pc = "raised" /\ exc = "ParseError"

\* C9: when the k-th file is unparsable the batch halts at it: nothing runs
\* after the halt, no file after the k-th is processed, the file contributes
\* no row, and every one of the 27 tables holds the header and the rows of the
\* k-1 earlier files.
C9_HaltsAtUnparsableFile ==
    /\ \A k \in DOMAIN xml_files : ~FileOf(xml_files[k]).parsable => fidx <= k
    /\ HaltedOnParse =>
          /\ fidx \in DOMAIN xml_files
          /\ ~FileOf(xml_files[fidx]).parsable
          /\ ~ENABLED NextBatch
          /\ \A h \in Hemis, f \in Fields :
                /\ disk[HemispherePath(h, f)].rows = ExpectedTable(fidx - 1, h, f)
                /\ Len(disk[HemispherePath(h, f)].rows) = fidx

\* the third file was unparsable, after two files that were written
C9_Witness ==
    /\ HaltedOnParse
    /\ fidx = 3
    /\ Len(disk[HemispherePath("3", "volume")].rows) = 3
====
